---- MODULE Spec2Model ----
(***************************************************************************)
(* Token-heuristic control-flow-graph builder (cfg_builder.py) and path    *)
(* enumerator (paths_finder.py).                                           *)
(*                                                                         *)
(* Source lines and labels are TLA+ strings, so that the code's prefix,    *)
(* substring and regular-expression tests are computed on the characters   *)
(* exactly as Python computes them.  A source text is held as the list of  *)
(* lines that source.splitlines() returns.                                 *)
(***************************************************************************)
EXTENDS Integers, Sequences, FiniteSets, TLC

VARIABLES lines, pc, idx, count, stack, listM, nodes, edges, list3, adj, psource, pdest, paths,
          frames

vars == <<lines, pc, idx, count, stack, listM, nodes, edges, list3, adj, psource, pdest, paths,
          frames>>

(***************************************************************************)
(* Bounds of the model.                                                    *)
(***************************************************************************)
\* longest enumerated source text, in lines
MaxLines == 3

(***************************************************************************)
(* Python string helpers.                                                  *)
(***************************************************************************)
\* str.startswith
startswith(s, p) == Len(s) >= Len(p) /\ SubSeq(s, 1, Len(p)) = p

\* the `in` operator on strings: p occurs in s as a substring
contains(s, p) == \E k \in 1..(Len(s) - Len(p) + 1) : SubSeq(s, k, k + Len(p) - 1) = p

\* the whitespace characters that occur in the modelled lines
IsSpace(c) == c \in {" ", "\t"}

RECURSIVE lstrip(_)
lstrip(s) == IF Len(s) > 0 /\ IsSpace(SubSeq(s, 1, 1)) THEN lstrip(SubSeq(s, 2, Len(s))) ELSE s

RECURSIVE rstrip(_)
rstrip(s) == IF Len(s) > 0 /\ IsSpace(SubSeq(s, Len(s), Len(s)))
             THEN rstrip(SubSeq(s, 1, Len(s) - 1)) ELSE s

\* str.strip()
strip(s) == rstrip(lstrip(s))

\* line.replace("\t", " " * 4)
RECURSIVE replace_tabs(_)
replace_tabs(s) ==
    IF Len(s) = 0 THEN ""
    ELSE (IF SubSeq(s, 1, 1) = "\t" THEN "    " ELSE SubSeq(s, 1, 1))
         \o replace_tabs(SubSeq(s, 2, Len(s)))

\* line.lstrip(" ")
RECURSIVE lstrip_spaces(_)
lstrip_spaces(s) ==
    IF Len(s) > 0 /\ SubSeq(s, 1, 1) = " " THEN lstrip_spaces(SubSeq(s, 2, Len(s))) ELSE s

(***************************************************************************)
(* cfg_builder.py: the token labeler.                                      *)
(***************************************************************************)
KEYWORDS == <<"if", "elif", "else", "for", "while">>

\* the value None
None == "None"

indent_level(line) ==
    LET l == replace_tabs(line) IN Len(l) - Len(lstrip_spaces(l))

\* (keyword, remainder) of the first keyword of KEYWORDS the stripped line
\* starts with, else (None, None)
extract_keyword(line) ==
    LET s == strip(line)
        hits == {k \in 1..Len(KEYWORDS) : startswith(s, KEYWORDS[k])}
    IN  IF hits = {} THEN <<None, None>>
        ELSE LET k == CHOOSE k \in hits : \A m \in hits : k <= m
                 kw == KEYWORDS[k]
             IN  <<kw, strip(SubSeq(s, Len(kw) + 1, Len(s)))>>

\* a variant that pops only the blocks that are strictly deeper
RECURSIVE pop_blocks_deeper_only(_, _)
pop_blocks_deeper_only(stk, lvl) ==
    IF Len(stk) > 0 /\ lvl < stk[Len(stk)][1]
    THEN pop_blocks_deeper_only(SubSeq(stk, 1, Len(stk) - 1), lvl)
    ELSE stk

\* while stack and lvl <= stack[-1][0]: stack.pop()
RECURSIVE pop_blocks(_, _)
pop_blocks(stk, lvl) ==
    IF Len(stk) > 0 /\ lvl <= stk[Len(stk)][1]
    THEN pop_blocks(SubSeq(stk, 1, Len(stk) - 1), lvl)
    ELSE stk

\* a variant in which a blank line is not skipped before the stack is popped
process_line_blank_pops(st, line) ==
    LET lvl == indent_level(line)
        stk == pop_blocks(st.stack, lvl)
        kw == extract_keyword(line)[1]
        nested == Len(stk) > 0
        c == st.count + 1
        label == IF nested THEN kw \o "sp" \o ToString(c) ELSE kw \o ToString(c)
        explabel == IF nested THEN kw \o "spexp" \o ToString(c) ELSE kw \o "exp" \o ToString(c)
    IN  IF kw = None THEN [st EXCEPT !.stack = stk]
        ELSE IF kw \in {"if", "elif"}
        THEN [count |-> c, stack |-> Append(stk, <<lvl, label>>),
              listM |-> st.listM \o <<label, explabel>>]
        ELSE [count |-> c, stack |-> Append(stk, <<lvl, label>>),
              listM |-> Append(st.listM, label)]

\* a variant that counts every non-blank line, keyword or not
process_line_counts_all(st, line) ==
    IF strip(line) = "" THEN st
    ELSE
    LET kw == extract_keyword(line)[1]
        lvl == indent_level(line)
        stk == pop_blocks(st.stack, lvl)
        nested == Len(stk) > 0
        c == st.count + 1
        label == IF nested THEN kw \o "sp" \o ToString(c) ELSE kw \o ToString(c)
        explabel == IF nested THEN kw \o "spexp" \o ToString(c) ELSE kw \o "exp" \o ToString(c)
    IN  IF kw = None THEN [st EXCEPT !.stack = stk, !.count = c]
        ELSE IF kw \in {"if", "elif"}
        THEN [count |-> c, stack |-> Append(stk, <<lvl, label>>),
              listM |-> st.listM \o <<label, explabel>>]
        ELSE [count |-> c, stack |-> Append(stk, <<lvl, label>>),
              listM |-> Append(st.listM, label)]

\* a variant that skips a line without keyword before the stack is popped
process_line_skips_before_pop(st, line) ==
    IF strip(line) = "" \/ extract_keyword(line)[1] = None THEN st
    ELSE
    LET kw == extract_keyword(line)[1]
        lvl == indent_level(line)
        stk == pop_blocks(st.stack, lvl)
        nested == Len(stk) > 0
        c == st.count + 1
        label == IF nested THEN kw \o "sp" \o ToString(c) ELSE kw \o ToString(c)
        explabel == IF nested THEN kw \o "spexp" \o ToString(c) ELSE kw \o "exp" \o ToString(c)
    IN  IF kw \in {"if", "elif"}
        THEN [count |-> c, stack |-> Append(stk, <<lvl, label>>),
              listM |-> st.listM \o <<label, explabel>>]
        ELSE [count |-> c, stack |-> Append(stk, <<lvl, label>>),
              listM |-> Append(st.listM, label)]

\* one iteration of `for line in lines` of build_listM, applied to the loop
\* state st = [count, stack, listM]
process_line(st, line) ==
    IF strip(line) = "" THEN st
    ELSE
    LET kw == extract_keyword(line)[1]
        lvl == indent_level(line)
        stk == pop_blocks(st.stack, lvl)
        nested == Len(stk) > 0
        c == st.count + 1
        label == IF nested THEN kw \o "sp" \o ToString(c) ELSE kw \o ToString(c)
        explabel == IF nested THEN kw \o "spexp" \o ToString(c) ELSE kw \o "exp" \o ToString(c)
    IN  IF kw = None THEN [st EXCEPT !.stack = stk]
        ELSE IF kw \in {"if", "elif"}
        THEN [count |-> c, stack |-> Append(stk, <<lvl, label>>),
              listM |-> st.listM \o <<label, explabel>>]
        ELSE \* else, for, while: the three branches build the same label
             [count |-> c, stack |-> Append(stk, <<lvl, label>>),
              listM |-> Append(st.listM, label)]

\* the loop state before the first line
label_init == [count |-> 0, stack |-> <<>>, listM |-> <<>>]

\* the loop state after lines[1..n]
RECURSIVE label_lines(_, _)
label_lines(ls, n) ==
    IF n = 0 THEN label_init ELSE process_line(label_lines(ls, n - 1), ls[n])

\* listM.insert(0, "start"); listM.append("end")
add_start_end(l) == <<"start">> \o l \o <<"end">>

build_listM(ls) == add_start_end(label_lines(ls, Len(ls)).listM)

(***************************************************************************)
(* Inputs.                                                                 *)
(***************************************************************************)
\* leading whitespace of the enumerated lines: depths 0, 2 and 4
Leads == {"", "  ", "\t"}

\* line contents: one per keyword, and one statement that is no keyword
Texts == {"if x:", "elif y:", "else:", "for i in r:", "while c:", "print(v)"}

\* blank lines: the empty line and a line of whitespace
Blanks == {"", "\t"}

Lines == {lead \o text : lead \in Leads, text \in Texts} \cup Blanks

\* main.py's sample program, line by line
sample_program ==
    << "var=int(input())",
       "if(var == 200):",
       "    print (\"1 - Got a true expression value\")",
       "    print (var)",
       "elif var == 150:",
       "    print (\"2 - Got a true expression value\")",
       "    print (var)",
       "elif var == 100:",
       "    print (\"3 - Got a true expression value\")",
       "    print (var)",
       "else:",
       "    print (\"4 - Got a false expression value\")",
       "    print (var)" >>

Sources == UNION {[1..n -> Lines] : n \in 0..MaxLines} \cup {sample_program}

(***************************************************************************)
(* cfg_builder.py: the edge generator.                                     *)
(***************************************************************************)
\* list(dict.fromkeys(l)): the first occurrence of each item, in order
RECURSIVE unique(_)
unique(l) ==
    IF Len(l) = 0 THEN <<>>
    ELSE LET r == unique(SubSeq(l, 1, Len(l) - 1))
             x == l[Len(l)]
         IN  IF \E k \in 1..Len(r) : r[k] = x THEN r ELSE Append(r, x)

create_nodes(l) == unique(l)

\* \d+ : one or more decimal digits
digits(s) ==
    /\ Len(s) >= 1
    /\ \A k \in 1..Len(s) : SubSeq(s, k, k) \in {"0", "1", "2", "3", "4", "5", "6", "7", "8", "9"}

\* re.fullmatch(prefix + r"\d+", token)
fullmatch_num(prefix, token) ==
    startswith(token, prefix) /\ digits(SubSeq(token, Len(prefix) + 1, Len(token)))

_is_plain_if(token) == fullmatch_num("if", token)

_is_plain_elif(token) == fullmatch_num("elif", token)

_is_plain_else(token) == fullmatch_num("else", token)

\* a variant that matches ifexpN alone
_is_plain_exp_if_only(token) == fullmatch_num("ifexp", token)

_is_plain_exp(token) == fullmatch_num("ifexp", token) \/ fullmatch_num("elifexp", token)

\* a variant that does not take elseN for a branch keyword
_is_branch_kw_no_else(token) == _is_plain_elif(token) \/ token = "end"

_is_branch_kw(token) == _is_plain_elif(token) \/ _is_plain_else(token) \/ token = "end"

\* truth value of `x` for x a string or None
truthy(x) == x /= None /\ x /= ""

\* lowest element of a set of positions as <<k>>, or <<>> (None) when empty
lowest(hits) == IF hits = {} THEN <<>> ELSE <<CHOOSE k \in hits : \A m \in hits : k <= m>>

\* the scan `while j < len(listM)` for the next branch keyword, from position from
next_branch_index(l, from) == lowest({k \in from..Len(l) : _is_branch_kw(l[k])})

\* the scan `for k in range(i + 1, len(listM))` for the first label without "sp"
first_not_sp_index(l, from) == lowest({k \in from..Len(l) : ~contains(l[k], "sp")})

\* st is not None and en is not None and (st <= i <= en)
in_range(w, i) ==
    /\ Len(w.st) > 0
    /\ Len(w.en) > 0
    /\ w.st[1] <= i
    /\ i <= w.en[1]

\* One iteration of the `while i < len(listM) - 1` loop of generate_cfg at
\* position i (1-based: the code's i + 1), applied to the walk state
\* w = [edges, list3, st, en].  st and en hold <<>> for None, else <<index>>.
\* stfor, enfor, f and f1 are written by the code and never read.
cfg_step(l, i, w) ==
    LET cur == l[i]
        nxt == IF i + 1 <= Len(l) THEN l[i + 1] ELSE None
        j == first_not_sp_index(l, i + 1)
        nb == next_branch_index(l, i + 2)
        loop_edges ==
            (IF truthy(nxt) /\ ~contains(nxt, "sp") THEN <<(<<cur, cur>>)>> ELSE <<>>)
            \o (IF Len(j) > 0
                THEN <<(<<cur, l[j[1]]>>)>>
                     \o (IF truthy(nxt) /\ l[i + 1] /= l[j[1]] THEN <<(<<cur, l[i + 1]>>)>> ELSE <<>>)
                ELSE <<>>)
    IN
    IF _is_plain_exp(cur) THEN w
    ELSE IF (_is_plain_if(cur) \/ _is_plain_elif(cur)) /\ truthy(nxt) /\ _is_plain_exp(nxt)
    THEN [w EXCEPT
            !.edges = @ \o <<(<<cur, nxt>>)>>
                        \o (IF Len(nb) > 0 THEN <<(<<cur, l[nb[1]]>>)>> ELSE <<>>)
                        \o <<(<<nxt, "end">>)>>,
            !.list3 = @ \o <<cur, nxt>> \o (IF Len(nb) > 0 THEN <<l[nb[1]]>> ELSE <<>>)]
    ELSE IF _is_plain_else(cur)
    THEN [w EXCEPT !.edges = Append(@, <<cur, "end">>), !.list3 = Append(@, cur)]
    ELSE IF startswith(cur, "forsp")
    THEN [w EXCEPT !.edges =
            @ \o <<(<<cur, cur>>)>>
              \o (IF i - 1 >= 1 /\ contains(l[i - 1], "for") THEN <<(<<cur, l[i - 1]>>)>>
                  ELSE IF truthy(nxt) /\ contains(nxt, "sp") THEN <<(<<cur, nxt>>)>>
                  ELSE IF in_range(w, i) THEN <<(<<cur, "f">>)>>
                  ELSE IF truthy(nxt) THEN <<(<<cur, nxt>>)>>
                  ELSE <<>>)]
    ELSE IF startswith(cur, "for") /\ ~contains(cur, "sp")
    THEN [w EXCEPT !.edges = @ \o loop_edges]
    ELSE IF startswith(cur, "while") /\ ~contains(cur, "sp")
    THEN [w EXCEPT !.edges = @ \o loop_edges,
                   !.st = <<i>>,
                   !.en = IF Len(j) > 0 THEN j ELSE @]
    ELSE IF startswith(cur, "whilesp")
    THEN [w EXCEPT !.edges =
            @ \o (IF in_range(w, i) THEN <<(<<cur, "f">>)>>
                  ELSE IF truthy(nxt) THEN <<(<<cur, nxt>>)>>
                  ELSE <<>>)
              \o <<(<<cur, cur>>)>>]
    ELSE IF truthy(nxt) THEN [w EXCEPT !.edges = Append(@, <<cur, nxt>>)]
    ELSE w

\* a variant without the edge start -> first label
cfg_init_no_start_edge(l) == [edges |-> <<>>, list3 |-> <<>>, st |-> <<>>, en |-> <<>>]

\* the walk state before the loop: start -> first label, i = 1
cfg_init(l) ==
    [edges |-> IF Len(l) >= 2 THEN <<(<<l[1], l[2]>>)>> ELSE <<>>,
     list3 |-> <<>>, st |-> <<>>, en |-> <<>>]

\* the walk state after the iterations at positions 2..i
RECURSIVE cfg_walk(_, _)
cfg_walk(l, i) == IF i < 2 THEN cfg_init(l) ELSE cfg_step(l, i, cfg_walk(l, i - 1))

\* de-duplicate edges (preserve order); no component is ever None
uniq_edges(es) == unique(SelectSeq(es, LAMBDA e : e[1] /= None /\ e[2] /= None))

\* freq: how often each label occurs in list3
list2_counts(l3) ==
    [n \in {l3[k] : k \in 1..Len(l3)} |-> Cardinality({k \in 1..Len(l3) : l3[k] = n})]

\* generate_cfg(listM) = (nodes, uniq_edges, list3, freq)
generate_cfg(l) ==
    LET w == cfg_walk(l, Len(l) - 1)
    IN  [nodes |-> create_nodes(l), edges |-> uniq_edges(w.edges),
         list3 |-> w.list3, freq |-> list2_counts(w.list3)]

\* d.get(k, [])
get(d, k) == IF k \in DOMAIN d THEN d[k] ELSE <<>>

\* the adjacency dict: for each edge source, its destinations in edge order
build_adj_from_edges(es) ==
    [a \in {es[k][1] : k \in 1..Len(es)} |->
        LET mine == SelectSeq(es, LAMBDA e : e[1] = a)
        IN  [k \in 1..Len(mine) |-> mine[k][2]]]

(***************************************************************************)
(* paths_finder.py                                                         *)
(***************************************************************************)
\* a variant in which a self-loop does not end the scan
RECURSIVE scan_back_skips_self_loop(_, _, _, _)
scan_back_skips_self_loop(d, node, path, m) ==
    LET succ == get(d, node) IN
    IF m > Len(succ) THEN <<>>
    ELSE IF succ[m] = node THEN scan_back_skips_self_loop(d, node, path, m + 1)
    ELSE IF succ[m] = "end" THEN << path \o <<node, "end">> >>
    ELSE scan_back_skips_self_loop(d, node, path, m + 1)

\* a variant that completes the path with the node alone
RECURSIVE scan_back_forgets_end(_, _, _, _)
scan_back_forgets_end(d, node, path, m) ==
    LET succ == get(d, node) IN
    IF m > Len(succ) THEN <<>>
    ELSE IF succ[m] = node THEN <<>>
    ELSE IF succ[m] = "end" THEN << Append(path, node) >>
    ELSE scan_back_forgets_end(d, node, path, m + 1)

\* the scan of d[node] for a node already on the path, from its m-th
\* successor on: the new paths it appends (none or one)
RECURSIVE scan_back(_, _, _, _)
scan_back(d, node, path, m) ==
    LET succ == get(d, node) IN
    IF m > Len(succ) THEN <<>>
    ELSE IF succ[m] = node THEN <<>>
    ELSE IF succ[m] = "end" THEN << path \o <<node, "end">> >>
    ELSE scan_back(d, node, path, m + 1)

RECURSIVE find_all_paths(_, _, _, _)
RECURSIVE visit_successors(_, _, _, _, _)
RECURSIVE visit_successors_first_only(_, _, _, _, _)

\* a variant that returns the paths of the first successor that has any
visit_successors_first_only(d, source, dest, path, k) ==
    LET succ == get(d, source) IN
    IF k > Len(succ) THEN <<>>
    ELSE LET node == succ[k]
             here == IF \E q \in 1..Len(path) : path[q] = node
                     THEN scan_back(d, node, path, 1)
                     ELSE find_all_paths(d, node, dest, path)
         IN  IF Len(here) > 0 THEN here
             ELSE visit_successors_first_only(d, source, dest, path, k + 1)

\* `for node in d.get(source, [])` from the k-th successor on; path already
\* ends with source
visit_successors(d, source, dest, path, k) ==
    LET succ == get(d, source) IN
    IF k > Len(succ) THEN <<>>
    ELSE LET node == succ[k]
             here == IF \E q \in 1..Len(path) : path[q] = node
                     THEN scan_back(d, node, path, 1)
                     ELSE find_all_paths(d, node, dest, path)
         IN  here \o visit_successors(d, source, dest, path, k + 1)

find_all_paths(d, source, dest, path0) ==
    LET path == Append(path0, source)
    IN  IF source = dest THEN <<path>>
        ELSE visit_successors(d, source, dest, path, 1)

(***************************************************************************)
(* The pipeline of main.py as a state machine.                             *)
(***************************************************************************)
Init ==
    /\ lines \in Sources
    /\ pc = "label"
    /\ idx = 1
    /\ count = 0
    /\ stack = <<>>
    /\ listM = <<>>
    /\ nodes = <<>>
    /\ edges = <<>>
    /\ list3 = <<>>
    /\ adj = <<>>
    /\ psource = "start"
    /\ pdest = "end"
    /\ paths = <<>>
    /\ frames = <<>>

\* build_listM: one line of the source
LabelLine ==
    /\ pc = "label"
    /\ idx <= Len(lines)
    /\ LET st == process_line([count |-> count, stack |-> stack, listM |-> listM], lines[idx])
       IN  /\ count' = st.count
           /\ stack' = st.stack
           /\ listM' = st.listM
    /\ idx' = idx + 1
    /\ UNCHANGED <<lines, pc, nodes, edges, list3, adj, psource, pdest, paths, frames>>

\* build_listM: the loop is over, start and end are added
LabelFinish ==
    /\ pc = "label"
    /\ idx > Len(lines)
    /\ listM' = add_start_end(listM)
    /\ pc' = "cfg"
    /\ UNCHANGED <<lines, idx, count, stack, nodes, edges, list3, adj, psource, pdest, paths, frames>>

\* nodes, edges, list3, list2_counts = generate_cfg(listM)
GenerateCfg ==
    /\ pc = "cfg"
    /\ LET g == generate_cfg(listM)
       IN  /\ nodes' = g.nodes
           /\ edges' = g.edges
           /\ list3' = g.list3
    /\ pc' = "adj"
    /\ UNCHANGED <<lines, idx, count, stack, listM, adj, psource, pdest, paths, frames>>

\* adj = build_adj_from_edges(edges)
BuildAdj ==
    /\ pc = "adj"
    /\ adj' = build_adj_from_edges(edges)
    /\ pc' = "paths"
    /\ UNCHANGED <<lines, idx, count, stack, listM, nodes, edges, list3, psource, pdest, paths, frames>>

\* paths = find_all_paths(adj, "start", "end")
FindPaths ==
    /\ pc = "paths"
    /\ paths' = find_all_paths(adj, psource, pdest, <<>>)
    /\ pc' = "done"
    /\ UNCHANGED <<lines, idx, count, stack, listM, nodes, edges, list3, adj, psource, pdest, frames>>

Next == LabelLine \/ LabelFinish \/ GenerateCfg \/ BuildAdj \/ FindPaths

Spec == Init /\ [][Next]_vars

(***************************************************************************)
(* Arbitrary adjacency mappings handed to find_all_paths.                  *)
(***************************************************************************)
\* longest successor list of an enumerated adjacency mapping
MaxSucc == 2

GraphNodes == {"start", "for1", "end"}

SuccLists == UNION {[1..n -> GraphNodes] : n \in 0..MaxSucc}

InitPaths ==
    /\ lines = <<>>
    /\ pc = "paths"
    /\ idx = 1
    /\ count = 0
    /\ stack = <<>>
    /\ listM = <<>>
    /\ nodes = <<>>
    /\ edges = <<>>
    /\ list3 = <<>>
    /\ adj \in [GraphNodes -> SuccLists]
    /\ psource \in GraphNodes
    /\ pdest \in GraphNodes
    /\ paths = <<>>
    /\ frames = <<>>

NextPaths == FindPaths

SpecPaths == InitPaths /\ [][NextPaths]_vars

(***************************************************************************)
(* find_all_paths call by call: frames is the stack of its active calls.   *)
(* A frame holds the call's source, its path (source appended), the index  *)
(* k of the successor the loop `for node in d.get(source, [])` is at, and  *)
(* the list `paths` the call has accumulated.                              *)
(***************************************************************************)
\* path = (path or []) + [source]; paths = []
new_frame(source, path0) ==
    [source |-> source, path |-> Append(path0, source), k |-> 1, acc |-> <<>>]

\* a variant that takes only the current source for being on the path
on_path_last_only(path, node) == path[Len(path)] = node

\* node in path
on_path(path, node) == \E q \in 1..Len(path) : path[q] = node

\* the call on top of the stack
top_frame == frames[Len(frames)]

\* the top call is in its loop, at a successor
at_successor ==
    /\ pc = "call"
    /\ top_frame.source /= pdest
    /\ top_frame.k <= Len(get(adj, top_frame.source))

\* the successor list of every label is without repetition
DistinctSuccLists == {l \in UNION {[1..n -> GraphNodes] : n \in 0..Cardinality(GraphNodes)} :
                        \A a, b \in 1..Len(l) : l[a] = l[b] => a = b}

\* The labels start and for1 differ in name only (end is the one label the
\* code names), so the calls from for1 are those from start with the two
\* names exchanged.
InitCalls ==
    /\ lines = <<>>
    /\ pc = "paths"
    /\ idx = 1
    /\ count = 0
    /\ stack = <<>>
    /\ listM = <<>>
    /\ nodes = <<>>
    /\ edges = <<>>
    /\ list3 = <<>>
    /\ adj \in [GraphNodes -> SuccLists \cup DistinctSuccLists]
    /\ psource \in {"start", "end"}
    /\ pdest \in GraphNodes
    /\ paths = <<>>
    /\ frames = <<>>

\* the call find_all_paths(adj, source, dest) is entered
EnterCall ==
    /\ pc = "paths"
    /\ frames' = <<new_frame(psource, <<>>)>>
    /\ pc' = "call"
    /\ UNCHANGED <<lines, idx, count, stack, listM, nodes, edges, list3, adj, psource, pdest, paths>>

\* the successor is not on the path: find_all_paths(d, node, dest, path)
Recurse ==
    /\ at_successor
    /\ LET node == get(adj, top_frame.source)[top_frame.k]
       IN  /\ ~on_path(top_frame.path, node)
           /\ frames' = Append(frames, new_frame(node, top_frame.path))
    /\ UNCHANGED <<lines, pc, idx, count, stack, listM, nodes, edges, list3, adj, psource, pdest, paths>>

\* the successor is on the path: the scan of its successors, then `continue`
BackEdge ==
    /\ at_successor
    /\ LET node == get(adj, top_frame.source)[top_frame.k]
       IN  /\ on_path(top_frame.path, node)
           /\ frames' = [frames EXCEPT ![Len(frames)] =
                            [@ EXCEPT !.acc = @ \o scan_back(adj, node, top_frame.path, 1),
                                      !.k = @ + 1]]
    /\ UNCHANGED <<lines, pc, idx, count, stack, listM, nodes, edges, list3, adj, psource, pdest, paths>>

\* `return [path]` at dest, or `return paths` after the loop: the caller
\* appends the paths returned and goes on to its next successor
Return ==
    /\ pc = "call"
    /\ ~at_successor
    /\ LET result == IF top_frame.source = pdest THEN <<top_frame.path>> ELSE top_frame.acc
           caller == Len(frames) - 1
       IN  IF caller >= 1
           THEN /\ frames' = [SubSeq(frames, 1, caller) EXCEPT ![caller] =
                                [@ EXCEPT !.acc = @ \o result, !.k = @ + 1]]
                /\ UNCHANGED <<pc, paths>>
           ELSE /\ frames' = <<>>
                /\ paths' = result
                /\ pc' = "done"
    /\ UNCHANGED <<lines, idx, count, stack, listM, nodes, edges, list3, adj, psource, pdest>>

NextCalls == EnterCall \/ Recurse \/ BackEdge \/ Return

\* the interpreter runs the one thread of the program on: a step that can
\* be taken is taken
SpecCalls == InitCalls /\ [][NextCalls]_vars /\ WF_vars(NextCalls)

(***************************************************************************)
(* Helpers of the properties.                                              *)
(***************************************************************************)
Range(l) == {l[k] : k \in 1..Len(l)}

NoDuplicates(l) == \A a, b \in 1..Len(l) : l[a] = l[b] => a = b

Occurrences(l, x) == Cardinality({k \in 1..Len(l) : l[k] = x})

IsBlank(line) == strip(line) = ""

\* the line starts, after its leading whitespace, with one of the keywords
IsKeywordLine(line) == \E k \in 1..Len(KEYWORDS) : startswith(lstrip(line), KEYWORDS[k])

\* the positions of the keyword lines of ls, in order
KeywordPositions(ls) == {k \in 1..Len(ls) : IsKeywordLine(ls[k])}

\* the source without its k-th line
Delete(ls, k) == SubSeq(ls, 1, k - 1) \o SubSeq(ls, k + 1, Len(ls))

\* generate_cfg has run
Built == pc \in {"adj", "paths", "done"}

(***************************************************************************)
(* C1: the edge list holds no pair twice, and both ends of every edge are  *)
(* members of the node list of the same call.                              *)
(***************************************************************************)
C1_EdgesWithinNodes ==
    Built =>
        /\ NoDuplicates(edges)
        /\ \A k \in 1..Len(edges) :
              edges[k][1] \in Range(nodes) /\ edges[k][2] \in Range(nodes)

\* a code-bug state of C1: an edge of a built graph ends at the marker "f",
\* which is no node
C1_MarkerEdge ==
    Built /\ \E k \in 1..Len(edges) : edges[k][2] = "f" /\ "f" \notin Range(nodes)

(***************************************************************************)
(* C2: a source whose only keyword line is a while.                        *)
(***************************************************************************)
SingleWhileSource(ls) ==
    /\ Cardinality(KeywordPositions(ls)) = 1
    /\ \A k \in KeywordPositions(ls) : extract_keyword(ls[k])[1] = "while"

\* C2 as stated: for a single non-nested while loop the edges hold the
\* self-loop and the loop-exit edge, and the paths from start to end hold
\* both the loop-skipped path and the synthetic path start, while, while, end.
C2_Original ==
    (pc = "done" /\ SingleWhileSource(lines)) =>
        /\ <<"while1", "while1">> \in Range(edges)
        /\ <<"while1", "end">> \in Range(edges)
        /\ <<"start", "while1", "end">> \in Range(paths)
        /\ <<"start", "while1", "while1", "end">> \in Range(paths)

\* C2 as amended: for a single non-nested while loop the edges are start to
\* while, the self-loop and the loop-exit edge, and the loop-skipped path is
\* the only path: the self-loop is the first successor of the while node, so
\* the back-edge scan stops at it and adds no synthetic path.
C2_SingleWhile ==
    (pc = "done" /\ SingleWhileSource(lines)) =>
        /\ listM = <<"start", "while1", "end">>
        /\ edges = << <<"start", "while1">>, <<"while1", "while1">>, <<"while1", "end">> >>
        /\ adj["while1"] = <<"while1", "end">>
        /\ paths = << <<"start", "while1", "end">> >>

C2_Witness ==
    /\ pc = "done"
    /\ SingleWhileSource(lines)
    /\ \E k \in 1..Len(lines) : ~IsKeywordLine(lines[k]) /\ ~IsBlank(lines[k])
    /\ Len(paths) = 1

(***************************************************************************)
(* C3: main.py's sample program.                                           *)
(***************************************************************************)
SampleListM ==
    <<"start", "if1", "ifexp1", "elif2", "elifexp2", "elif3", "elifexp3", "else4", "end">>

SampleBranchEdges ==
    << <<"if1", "ifexp1">>, <<"if1", "elif2">>, <<"ifexp1", "end">>,
       <<"elif2", "elifexp2">>, <<"elif2", "elif3">>, <<"elifexp2", "end">>,
       <<"elif3", "elifexp3">>, <<"elif3", "else4">>, <<"elifexp3", "end">>,
       <<"else4", "end">> >>

\* |edges| - |nodes| + 2
Cyclomatic == Len(edges) - Len(nodes) + 2

\* C3 as stated: the sample yields the nine labels, nine nodes and exactly
\* the ten branch edges, so that the cyclomatic complexity is 3.
C3_Original ==
    (Built /\ lines = sample_program) =>
        /\ listM = SampleListM
        /\ Len(nodes) = 9
        /\ Len(edges) = 10
        /\ Range(edges) = Range(SampleBranchEdges)
        /\ Cyclomatic = 3

\* C3 as amended: the sample yields the nine labels, nine nodes and eleven
\* edges, the edge start to if1 followed by the ten branch edges, so that
\* the cyclomatic complexity is 4.
C3_Sample ==
    (Built /\ lines = sample_program) =>
        /\ listM = SampleListM
        /\ nodes = SampleListM
        /\ edges = << <<"start", "if1">> >> \o SampleBranchEdges
        /\ Len(edges) = 11
        /\ Cyclomatic = 4

C3_Witness == Built /\ lines = sample_program /\ Len(nodes) = 9

(***************************************************************************)
(* C4: every path of a pipeline graph starts with start and ends with end; *)
(* a path either repeats no label, or it repeats exactly one label exactly *)
(* twice, the second time right before the final end (the back-edge node   *)
(* of a synthetic path).                                                   *)
(***************************************************************************)
C4_PathShape ==
    pc = "done" =>
        \A k \in 1..Len(paths) :
            LET p == paths[k] IN
            /\ Len(p) >= 2
            /\ p[1] = "start"
            /\ p[Len(p)] = "end"
            /\ \A x \in Range(p) : Occurrences(p, x) <= 2
            /\ \A x \in Range(p) : Occurrences(p, x) = 2 => x = p[Len(p) - 1]
            /\ NoDuplicates(SubSeq(p, 1, Len(p) - 2))

\* a synthetic path next to an ordinary one
C4_Witness ==
    /\ pc = "done"
    /\ \E k \in 1..Len(paths) : ~NoDuplicates(paths[k])
    /\ \E k \in 1..Len(paths) : NoDuplicates(paths[k]) /\ Len(paths[k]) > 2

(***************************************************************************)
(* C5: the counter and the numbering of the labels.                        *)
(***************************************************************************)
\* the keywords of the keyword lines among ls[1..n], in order
RECURSIVE KeywordsOf(_, _)
KeywordsOf(ls, n) ==
    IF n = 0 THEN <<>>
    ELSE IF IsKeywordLine(ls[n])
         THEN Append(KeywordsOf(ls, n - 1), extract_keyword(ls[n])[1])
         ELSE KeywordsOf(ls, n - 1)

\* the labels of the k-th keyword line, sp being "" or "sp"
Chunk(kw, k, sp) ==
    IF kw \in {"if", "elif"}
    THEN <<kw \o sp \o ToString(k), kw \o sp \o "exp" \o ToString(k)>>
    ELSE <<kw \o sp \o ToString(k)>>

\* l[pos..] is the labels of the keywords kws[k..], numbered k, k + 1, ...
\* in order, each nested or not
RECURSIVE NumberedFrom(_, _, _, _)
NumberedFrom(l, pos, kws, k) ==
    IF k > Len(kws) THEN pos = Len(l) + 1
    ELSE \E sp \in {"", "sp"} :
            LET c == Chunk(kws[k], k, sp)
            IN  /\ SubSeq(l, pos, pos + Len(c) - 1) = c
                /\ NumberedFrom(l, pos + Len(c), kws, k + 1)

Numbered(l, kws) == NumberedFrom(l, 1, kws, 1)

\* C5: after any number of lines the counter is the number of keyword lines
\* read so far, and the labels emitted are those of the keyword lines,
\* numbered 1, 2, ... in order without gap or reuse, each if/elif label
\* followed at once by its expression label of the same number; the labels
\* that are no expression label are as many as the keyword lines.
C5_Numbering ==
    pc \in {"label", "cfg"} =>
        LET n == IF pc = "label" THEN idx - 1 ELSE Len(lines)
            kws == KeywordsOf(lines, n)
            body == IF pc = "label" THEN listM ELSE SubSeq(listM, 2, Len(listM) - 1)
        IN  /\ count = Len(kws)
            /\ Numbered(body, kws)
            /\ Cardinality({k \in 1..Len(body) : ~contains(body[k], "exp")}) = Len(kws)
            /\ pc = "cfg" => listM[1] = "start" /\ listM[Len(listM)] = "end"

C5_Witness ==
    /\ pc = "cfg"
    /\ listM = <<"start", "if1", "ifexp1", "whilesp2", "end">>
    /\ \E k \in 1..Len(lines) : ~IsKeywordLine(lines[k]) /\ ~IsBlank(lines[k])

(***************************************************************************)
(* C6: lines without keyword.                                              *)
(***************************************************************************)
\* a line that is not blank and starts with no keyword
IsOtherLine(line) == ~IsBlank(line) /\ ~IsKeywordLine(line)

\* the loop state as a record
LabelState == [count |-> count, stack |-> stack, listM |-> listM]

\* the k-th line is the last line, or no keyword line follows it, or the
\* first keyword line after it is indented no deeper than it
NotShallower(ls, k) ==
    \/ \A m \in (k + 1)..Len(ls) : ~IsKeywordLine(ls[m])
    \/ LET m == CHOOSE m \in (k + 1)..Len(ls) :
                    IsKeywordLine(ls[m]) /\ \A q \in (k + 1)..(m - 1) : ~IsKeywordLine(ls[q])
       IN  indent_level(ls[k]) >= indent_level(ls[m])

\* C6 as stated: a line without keyword changes neither the counter nor the
\* nesting stack, and deleting any such line from the source yields the same
\* label sequence.
C6_Original ==
    /\ (pc = "label" /\ idx > 1 /\ IsOtherLine(lines[idx - 1])) =>
            LET prev == label_lines(lines, idx - 2)
            IN  count = prev.count /\ stack = prev.stack
    /\ pc = "cfg" =>
            \A k \in 1..Len(lines) :
                IsOtherLine(lines[k]) => build_listM(Delete(lines, k)) = listM

\* C6 as amended: a line without keyword leaves the counter and the labels
\* alone and pushes nothing, but it pops the stack entries whose depth is at
\* least its own; deleting such a line yields the same label sequence when
\* no keyword line follows it or the next keyword line is indented no
\* deeper than it.
C6_OtherLine ==
    /\ (pc = "label" /\ idx > 1 /\ IsOtherLine(lines[idx - 1])) =>
            LET prev == label_lines(lines, idx - 2)
                lvl == indent_level(lines[idx - 1])
            IN  /\ count = prev.count
                /\ listM = prev.listM
                /\ stack = SelectSeq(prev.stack, LAMBDA e : e[1] < lvl)
    /\ pc = "cfg" =>
            \A k \in 1..Len(lines) :
                (IsOtherLine(lines[k]) /\ NotShallower(lines, k)) =>
                    build_listM(Delete(lines, k)) = listM

\* a line without keyword has closed the block of if1, so that the deeper
\* while after it is not nested
C6_Witness ==
    /\ pc = "cfg"
    /\ Len(lines) = 3
    /\ IsOtherLine(lines[2])
    /\ indent_level(lines[2]) < indent_level(lines[3])
    /\ listM = <<"start", "if1", "ifexp1", "while2", "end">>

(***************************************************************************)
(* C7: blank lines.                                                        *)
(***************************************************************************)
\* C7: a blank line leaves the counter, the nesting stack and the labels
\* unchanged, and the label sequence of a source is that of the source
\* without its blank lines.
C7_BlankLines ==
    /\ (pc = "label" /\ idx > 1 /\ IsBlank(lines[idx - 1])) =>
            LabelState = label_lines(lines, idx - 2)
    /\ pc = "cfg" =>
            listM = build_listM(SelectSeq(lines, LAMBDA line : ~IsBlank(line)))

\* a blank line at depth 0 between an open if and a nested while
C7_Witness ==
    /\ pc = "cfg"
    /\ Len(lines) = 3
    /\ IsBlank(lines[2])
    /\ indent_level(lines[2]) = 0
    /\ listM = <<"start", "if1", "ifexp1", "whilesp2", "end">>

(***************************************************************************)
(* C8: the paths of an acyclic graph.                                      *)
(***************************************************************************)
EdgeSet == Range(edges)

\* what is left of S after taking away, again and again, the labels with
\* no edge into what is left
RECURSIVE Peel(_)
Peel(S) ==
    LET leaves == {n \in S : \A e \in EdgeSet : e[1] = n => e[2] \notin S}
    IN  IF leaves = {} THEN S ELSE Peel(S \ leaves)

Acyclic == Peel({e[1] : e \in EdgeSet} \cup {e[2] : e \in EdgeSet}) = {}

\* the set of the paths from n to end along the edges (of an acyclic graph)
RECURSIVE PathsFrom(_)
PathsFrom(n) ==
    IF n = "end" THEN {<<n>>}
    ELSE UNION {{<<n>> \o p : p \in PathsFrom(e[2])} : e \in {x \in EdgeSet : x[1] = n}}

EdgePos(u, v) == CHOOSE k \in 1..Len(edges) : edges[k] = <<u, v>>

\* where p and q part, p takes the edge that was inserted first
DepthFirstBefore(p, q) ==
    LET diff == {k \in 1..Len(p) : k > Len(q) \/ p[k] /= q[k]}
    IN  /\ diff /= {}
        /\ LET c == CHOOSE k \in diff : \A m \in diff : k <= m
           IN  /\ c > 1
               /\ c <= Len(q)
               /\ EdgePos(p[c - 1], p[c]) < EdgePos(q[c - 1], q[c])

SamplePaths ==
    << <<"start", "if1", "ifexp1", "end">>,
       <<"start", "if1", "elif2", "elifexp2", "end">>,
       <<"start", "if1", "elif2", "elif3", "elifexp3", "end">>,
       <<"start", "if1", "elif2", "elif3", "else4", "end">> >>

\* C8: on an acyclic pipeline graph the paths returned are exactly the
\* paths from start to end along the edges, each once, in depth-first order
\* by edge insertion; the sample program has exactly four of them.
C8_AllPaths ==
    /\ (pc = "done" /\ Acyclic) =>
            /\ Range(paths) = PathsFrom("start")
            /\ NoDuplicates(paths)
            /\ \A k \in 1..(Len(paths) - 1) : DepthFirstBefore(paths[k], paths[k + 1])
    /\ (pc = "done" /\ lines = sample_program) =>
            Acyclic /\ Len(paths) = 4 /\ paths = SamplePaths

\* an acyclic graph other than the sample's, with a loop header and two
\* paths
C8_Witness ==
    /\ pc = "done"
    /\ Acyclic
    /\ lines /= sample_program
    /\ Len(paths) = 2
    /\ \E k \in 1..Len(nodes) : startswith(nodes[k], "for")

(***************************************************************************)
(* C9: a source without keyword line.                                      *)
(***************************************************************************)
\* C9: without keyword line the labels and the nodes are start, end, the
\* only edge is start to end, and the only path is start, end.
C9_NoKeyword ==
    (\A k \in 1..Len(lines) : ~IsKeywordLine(lines[k])) =>
        /\ pc \notin {"label"} => listM = <<"start", "end">>
        /\ Built => nodes = <<"start", "end">> /\ edges = << <<"start", "end">> >>
        /\ pc = "done" => paths = << <<"start", "end">> >>

C9_Witness ==
    /\ pc = "done"
    /\ Len(lines) >= 2
    /\ \A k \in 1..Len(lines) : ~IsKeywordLine(lines[k])
    /\ \E k \in 1..Len(lines) : IsOtherLine(lines[k])
    /\ paths = << <<"start", "end">> >>

(***************************************************************************)
(* C10: the back-edge rule and the dest argument.                          *)
(***************************************************************************)
\* C10 as stated: whatever the dest argument, the back-edge rule completes
\* a path with dest, so every returned path ends with dest.
C10_EndsWithDest ==
    pc = "done" => \A k \in 1..Len(paths) : paths[k][Len(paths[k])] = pdest

\* a code-bug state of C10: a returned path ends with end, which is not dest
C10_EndsElsewhere ==
    /\ pc = "done"
    /\ pdest /= "end"
    /\ \E k \in 1..Len(paths) : paths[k][Len(paths[k])] = "end"

(***************************************************************************)
(* C11: the edges that leave expression labels.                            *)
(***************************************************************************)
\* an expression label of a branch that is not nested: ifexp<n>, elifexp<n>
IsPlainExpLabel(l) == contains(l, "exp") /\ ~contains(l, "sp")

\* an expression label of a nested branch: ifspexp<n>, elifspexp<n>
IsNestedExpLabel(l) == contains(l, "spexp")

\* the destinations of the edges that leave label l
Successors(l) == {e[2] : e \in {x \in Range(edges) : x[1] = l}}

\* C11 as stated: an expression label of any variant, nested ones included,
\* is never the source of an edge to the label that follows it in the
\* sequence; the only edge that leaves it is the edge to end.
C11_Original ==
    Built =>
        \A k \in 2..(Len(listM) - 1) :
            contains(listM[k], "exp") => Successors(listM[k]) = {"end"}

\* C11 as amended: the expression labels ifexp<n> and elifexp<n> of a branch
\* that is not nested are skipped by the walk, and the only edge that leaves
\* one is the edge to end added with its branch header; the nested variants
\* ifspexp<n> and elifspexp<n> are not skipped: the only edge that leaves
\* one is the default edge to the label that follows it in the sequence.
C11_ExpEdges ==
    Built =>
        \A k \in 2..(Len(listM) - 1) :
            /\ IsPlainExpLabel(listM[k]) => Successors(listM[k]) = {"end"}
            /\ IsNestedExpLabel(listM[k]) => Successors(listM[k]) = {listM[k + 1]}

\* an expression label that is not nested and one that is, neither followed
\* by end
C11_Witness ==
    /\ Built
    /\ \E k \in 2..(Len(listM) - 2) : IsPlainExpLabel(listM[k])
    /\ \E k \in 2..(Len(listM) - 2) :
          IsNestedExpLabel(listM[k]) /\ <<listM[k], listM[k + 1]>> \in Range(edges)

(***************************************************************************)
(* C12: the nesting stack.                                                 *)
(***************************************************************************)
\* C12: after any number of lines the depths in the nesting stack increase
\* strictly from bottom to top; a keyword line leaves on the stack exactly
\* the earlier entries of smaller depth, under its own entry, and its label
\* is nested (sp) iff there is such an entry.
C12_StackDepths ==
    pc = "label" =>
        /\ \A a, b \in 1..Len(stack) : a < b => stack[a][1] < stack[b][1]
        /\ (idx > 1 /\ IsKeywordLine(lines[idx - 1])) =>
                LET prev == label_lines(lines, idx - 2).stack
                    lvl == indent_level(lines[idx - 1])
                    kept == SelectSeq(prev, LAMBDA e : e[1] < lvl)
                    top == stack[Len(stack)]
                IN  /\ Len(stack) = Len(kept) + 1
                    /\ SubSeq(stack, 1, Len(kept)) = kept
                    /\ top[1] = lvl
                    /\ contains(top[2], "sp") <=> (\E k \in 1..Len(prev) : prev[k][1] < lvl)

\* three open blocks, each deeper than the one below
C12_Witness ==
    /\ pc = "label"
    /\ Len(stack) = 3
    /\ contains(stack[3][2], "sp")

(***************************************************************************)
(* C13: find_all_paths terminates.                                         *)
(***************************************************************************)
\* the labels of the graph: the source and the two ends of every edge
DistinctLabels ==
    {psource} \cup {n \in DOMAIN adj : adj[n] /= <<>>} \cup UNION {Range(adj[n]) : n \in DOMAIN adj}

\* the active calls are no deeper than the graph has labels: the path of
\* the i-th call has i labels, no label twice
C13_DepthBound ==
    /\ Len(frames) <= Cardinality(DistinctLabels)
    /\ \A i \in 1..Len(frames) :
          /\ Len(frames[i].path) = i
          /\ NoDuplicates(frames[i].path)
          /\ Range(frames[i].path) \subseteq DistinctLabels

\* the call has returned what find_all_paths returns
C13_Returned == pc = "done" => paths = find_all_paths(adj, psource, pdest, <<>>)

\* C13: on every adjacency mapping, cycles and self-loops included, and for
\* every source and dest, the recursion is never deeper than the number of
\* distinct labels, and the call returns.
C13_Terminates == [](C13_DepthBound /\ C13_Returned) /\ <>(pc = "done")

\* the call has returned on a graph with a two-label cycle and a self-loop
C13_Witness ==
    /\ pc = "done"
    /\ "start" \in Range(adj["start"])
    /\ "for1" \in Range(adj["start"])
    /\ "start" \in Range(adj["for1"])
    /\ Len(paths) > 0


(***************************************************************************)
(* C14: every node is reachable from start.                                *)
(***************************************************************************)
RECURSIVE ReachableFrom(_)
\* the labels reachable from the set s along the edges
ReachableFrom(s) ==
    LET more == s \cup {e[2] : e \in {x \in Range(edges) : x[1] \in s}}
    IN  IF more = s THEN s ELSE ReachableFrom(more)

\* C14: every node of the node list returned by generate_cfg is reachable
\* from start along the returned edges.
C14_AllReachable == Built => Range(nodes) \subseteq ReachableFrom({"start"})

\* two consecutive non-nested if statements: the second one is cut off
C14_SecondIfCutOff ==
    /\ Built
    /\ lines = <<"if x:", "print(v)", "if x:">>
    /\ "if2" \in Range(nodes)
    /\ "if2" \notin ReachableFrom({"start"})

====
